---- MODULE Spec2Model ----
(***************************************************************************)
(* A model of examples/ffi_demo/src/ical_demo.c: the ICAL demo driver      *)
(* (main), its configuration-building lines, and the copy verification     *)
(* helper verify_arl_copy.                                                 *)
(*                                                                         *)
(* Three specifications share the variables:                               *)
(*   Spec      main as shipped (literals of lines 100-107 as in the file)  *)
(*   SpecConf  lines 50-127 of main, the configuration builder, with the   *)
(*             channel count, sample count and frequency span drawn from   *)
(*             bounded sets instead of the shipped literals                *)
(*   SpecCopy  verify_arl_copy applied to bounded pairs of handles         *)
(*                                                                         *)
(* Heap objects are named after their allocation site (every site runs at  *)
(* most once).  A double is modelled as an exact rational, +-inf or NaN;   *)
(* rounding is not modelled.  Frequencies are in Hz, times in units of     *)
(* M_PI/3.  C ints are not wrapped: the bounds keep every product far      *)
(* below 2^31.                                                             *)
(***************************************************************************)
EXTENDS Integers, Sequences, FiniteSets, TLC

\* ---------------------------------------------------------------- bounds
MaxNant == 3
MaxNpol == 2
MaxNrec == 2
MaxSlices == 2
MaxNpixel == 2
MaxNfreqs == 4
MaxNtimes == 2
MaxSpan == 6
MaxNvis == 1

\* ------------------------------------------------- constants of the code
NFreqsLit == 5
NTimesLit == 11
FStartLit == 80000000
FEndLit == 120000000
TStartLit == -1
TEndLit == 1
ShapeLen == 4
VisHeaderBytes == 80
VisRowBytes == 32

NULL == "NULL"
UNINIT == "UNINIT"

Objects ==
  { "lowconfig", "freqs0", "chanbw0", "times0", "freqs", "chanbw", "times",
    "shape", "shape1", "vt", "vt_predictfunction", "vt_gt", "vtpredicted",
    "cindex_predict", "gt", "gleam_model", "model", "dirty", "deconvolved",
    "residual", "restored" }

PtrVars ==
  { "shape", "shape1", "lowconfig", "vt", "vt_predictfunction", "vt_gt",
    "vtpredicted", "cindex_predict", "gt", "gleam_model", "model", "dirty",
    "deconvolved", "residual", "restored" }

\* The stages of the pipeline driver, each entered by one call of main:
\* Configured by allocate_arlconf_default (87), VisibilityCreated by
\* arl_create_blockvisibility (151), Advised by arl_advise_wide_field (161),
\* SkyModelBuilt by arl_create_low_test_image_from_gleam (170), Predicted by
\* arl_predict_function (177), Converted by
\* arl_convert_visibility_to_blockvisibility (180), GainSimulated by
\* arl_simulate_gaintable (186), GainApplied by arl_apply_gaintable (189),
\* ModelImageBuilt by arl_create_image_from_blockvisibility (198), Inverted by
\* arl_invert_function (202), Calibrated by arl_ical (212), Exported by the
\* first export of an ICAL image (215), Released by the first destroy (221).
StageOrder ==
  << "Configured", "VisibilityCreated", "Advised", "SkyModelBuilt",
     "Predicted", "Converted", "GainSimulated", "GainApplied",
     "ModelImageBuilt", "Inverted", "Calibrated", "Exported", "Released" >>

\* ------------------------------------------------------ double arithmetic
Abs(x) == IF x < 0 THEN -x ELSE x

RECURSIVE GCD(_, _)
GCD(a, b) == IF b = 0 THEN a ELSE GCD(b, a % b)

Fin(n, d) ==
  LET g == GCD(Abs(n), d) IN [k |-> "fin", n |-> n \div g, d |-> d \div g]
DInt(i) == [k |-> "fin", n |-> i, d |-> 1]
DInf(s) == [k |-> "inf", n |-> s, d |-> 0]
DNaN == [k |-> "nan", n |-> 0, d |-> 0]

\* x / (double) y for ints x, y (IEEE 754: x/0 is +-inf, 0/0 is NaN)
DDivInt(x, y) ==
  IF y = 0 THEN (IF x = 0 THEN DNaN ELSE DInf(IF x > 0 THEN 1 ELSE -1))
  ELSE IF y > 0 THEN Fin(x, y) ELSE Fin(-x, -y)

\* (double) i * v
DMulInt(i, v) ==
  CASE v.k = "fin" -> Fin(i * v.n, v.d)
    [] v.k = "inf" -> IF i = 0 THEN DNaN ELSE DInf(IF i > 0 THEN v.n ELSE -v.n)
    [] OTHER -> DNaN

\* a + v for an integral double a
DAddInt(a, v) ==
  CASE v.k = "fin" -> Fin(a * v.d + v.n, v.d)
    [] OTHER -> v

\* ------------------------------------------------------------- variables
VARIABLES
  pc,          \* position in main: "L<line>", "done" (returned), "crashed"
  ret,         \* main's return value, -1 while running
  lit,         \* the literals of lines 100-107
  ptr,         \* main's pointer locals
  conf,        \* *lowconfig
  loc,         \* main's scalar locals and the structs nb and adv
  arr,         \* contents of the int/double arrays, by object
  allocOrder,  \* objects in allocation order
  relOrder,    \* objects in release order
  allocArgs,   \* the arguments each object was allocated with
  calls,       \* library calls made so far
  useErr,      \* pointers handed to a call or dereferenced while not live
  stages,      \* pipeline stages entered so far
  exports,     \* FITS exports made so far
  failedAt,    \* Len(stages) when an allocation first returned NULL or an export
               \* first returned a non-zero status; -1 while none has
  hnd, flip,   \* verify_arl_copy: the handle structs and the changed payload bytes
  va, vb,      \* verify_arl_copy: the arguments vt and vtmp
  vres, vsize, vi  \* verify_arl_copy: the result, ARLVisDataSize and i

drvVars == << pc, ret, lit, ptr, conf, loc, arr >>
heapVars == << allocOrder, relOrder, allocArgs >>
logVars == << calls, useErr >>
stageVars == << stages, exports >>
copyVars == << hnd, flip, va, vb, vres, vsize, vi >>
vars == << drvVars, heapVars, logVars, stageVars, failedAt, copyVars >>

\* ---------------------------------------------------------------- helpers
Range(s) == { s[i] : i \in DOMAIN s }
Count(s, x) == Cardinality({ i \in DOMAIN s : s[i] = x })
Live == { o \in Objects : Count(allocOrder, o) > Count(relOrder, o) }
IsPrefix(s, t) == Len(s) <= Len(t) /\ \A i \in DOMAIN s : s[i] = t[i]
Last(s) == s[Len(s)]
Reverse(s) == [ i \in 1..Len(s) |-> s[Len(s) + 1 - i] ]
SelectIn(s, S) == SelectSeq(s, LAMBDA x : x \in S)

Goto(from, to) == pc = from /\ pc' = to

\* a library call fn(ins..., outs...) with pointer arguments ins and outs
LibCall(fn, ins, outs, ints) ==
  /\ calls' = Append(calls, [fn |-> fn, ins |-> ins, outs |-> outs, ints |-> ints])
  /\ useErr' = useErr \cup
       { [fn |-> fn, buf |-> b] : b \in (Range(ins) \cup Range(outs)) \ Live }

\* a new object o, allocated with arguments args
Alloc(o, args) ==
  /\ allocOrder' = Append(allocOrder, o)
  /\ allocArgs' = [allocArgs EXCEPT ![o] = args]

\* free(p) or destroy_*(p): free(NULL) does nothing
Release(p) == relOrder' = IF p = NULL THEN relOrder ELSE Append(relOrder, p)

EnterStage(s) == stages' = Append(stages, s)

\* a stage failure is noted (the first one is kept)
Failure(nstages) == failedAt' = IF failedAt >= 0 THEN failedAt ELSE nstages

\* counts a default configuration may hold (all overwritten or unused by main)
DefaultCounts == {1, 2}

NoConf ==
  [ nant |-> 0, nbases |-> 0, nfreqs |-> 0, nchanwidth |-> 0, ntimes |-> 0,
    npol |-> 0, nrec |-> 0, rmax |-> 0, pc_ra |-> 0, pc_dec |-> 0,
    polframe |-> UNINIT, freqs |-> UNINIT, channel_bandwidth |-> UNINIT,
    times |-> UNINIT ]

NoLoc ==
  [ status |-> 0, nvis |-> 0, cindex_nbytes |-> 0, cellsize |-> 0,
    fstart |-> DInt(0), fend |-> DInt(0), fdelta |-> DInt(0),
    tstart |-> DInt(0), tend |-> DInt(0), tdelta |-> DInt(0),
    nb |-> [nant |-> 0, nbases |-> 0],
    adv |-> [guard_band_image |-> 0, delA |-> 0, wprojection_planes |-> 0,
             vis_slices |-> 0, npixel |-> 0, cellsize |-> 0] ]

ShippedLit ==
  [ nfreqs |-> NFreqsLit, ntimes |-> NTimesLit, fstart |-> FStartLit,
    fend |-> FEndLit, tstart |-> TStartLit, tend |-> TEndLit ]

InitCopyIdle ==
  /\ hnd = << >> /\ flip = << >> /\ va = 0 /\ vb = 0
  /\ vres = -1 /\ vsize = 0 /\ vi = 0

DriverRest ==
  /\ ret = -1
  /\ ptr = [ v \in PtrVars |-> UNINIT ]
  /\ conf = NoConf /\ loc = NoLoc
  /\ arr = [ o \in Objects |-> << >> ]
  /\ allocOrder = << >> /\ relOrder = << >>
  /\ allocArgs = [ o \in Objects |-> << >> ]
  /\ calls = << >> /\ useErr = {}
  /\ stages = << >> /\ exports = << >> /\ failedAt = -1

InitDriver == pc = "L50" /\ DriverRest

Init == InitDriver /\ lit = ShippedLit /\ InitCopyIdle

\* the configuration builder with its literals as parameters
FStarts == {0, FStartLit}
DrawnLits ==
  { [ nfreqs |-> nf, ntimes |-> nt, fstart |-> fs, fend |-> fs + sp,
      tstart |-> TStartLit, tend |-> TEndLit ] :
      nf \in 1..MaxNfreqs, nt \in 1..MaxNtimes, fs \in FStarts, sp \in 0..MaxSpan }

InitConf == InitDriver /\ lit \in DrawnLits \cup {ShippedLit} /\ InitCopyIdle

\* ------------------------------------------------- main, lines 50 to 146
\* p = malloc(...) at a site of main: NULL or a new object
Malloc(from, to, var, args) ==
  /\ Goto(from, to)
  /\ \/ /\ ptr' = [ptr EXCEPT ![var] = var]
        /\ Alloc(var, args)
        /\ UNCHANGED failedAt
     \/ /\ ptr' = [ptr EXCEPT ![var] = NULL]
        /\ Failure(Len(stages))
        /\ UNCHANGED heapVars
  /\ UNCHANGED << ret, lit, conf, loc, arr, relOrder, logVars, stageVars, copyVars >>

L50_malloc_shape == Malloc("L50", "L51", "shape", << ShapeLen >>)

L51_malloc_shape1 == Malloc("L51", "L85", "shape1", << ShapeLen >>)

L85_arl_initialize ==
  /\ Goto("L85", "L87")
  /\ LibCall("arl_initialize", << >>, << >>, << >>)
  /\ UNCHANGED << ret, lit, ptr, conf, loc, arr, heapVars, stageVars, failedAt, copyVars >>

\* what allocate_arlconf_default returns: a configuration with default counts
\* and heap-allocated default freqs, channel_bandwidth and times arrays
Lib_allocate_arlconf_default(np, d) ==
  [ NoConf EXCEPT !.nant = d, !.nbases = d, !.nfreqs = d, !.nchanwidth = d,
    !.ntimes = d, !.npol = np, !.nrec = d, !.freqs = "freqs0",
    !.channel_bandwidth = "chanbw0", !.times = "times0" ]

\* lowconfig = allocate_arlconf_default(config_name)
L87_allocate_arlconf_default ==
  /\ Goto("L87", "L90")
  /\ \E np \in 1..MaxNpol, d \in DefaultCounts :
       conf' = Lib_allocate_arlconf_default(np, d)
  /\ ptr' = [ptr EXCEPT !["lowconfig"] = "lowconfig"]
  /\ allocOrder' = allocOrder \o << "lowconfig", "freqs0", "chanbw0", "times0" >>
  /\ LibCall("allocate_arlconf_default", << >>, << >>, << >>)
  /\ EnterStage("Configured")
  /\ UNCHANGED << ret, lit, loc, arr, relOrder, allocArgs, exports, failedAt, copyVars >>

\* what helper_get_nbases_rmax stores in nb for an array of na antennas
Lib_helper_get_nbases_rmax(na) == [nant |-> na, nbases |-> (na * (na - 1)) \div 2]

\* lines 90-98: polframe, rmax, helper_get_nbases_rmax, nant, nbases, phase centre
L90_set_array ==
  /\ Goto("L90", "L100")
  /\ \E na \in 2..MaxNant :
       LET nb == Lib_helper_get_nbases_rmax(na) IN
       /\ loc' = [loc EXCEPT !.nb = nb]
       /\ conf' = [ conf EXCEPT !.polframe = "stokesI", !.rmax = 300,
                    !.nant = nb.nant, !.nbases = nb.nbases,
                    !.pc_ra = 30, !.pc_dec = -60 ]
  /\ LibCall("helper_get_nbases_rmax", << >>, << >>, << conf.rmax >>)
  /\ UNCHANGED << ret, lit, ptr, arr, heapVars, stageVars, failedAt, copyVars >>

\* lines 100-104: nfreqs, nchanwidth, fstart, fend, fdelta
L100_set_freq_params ==
  /\ Goto("L100", "L105")
  /\ conf' = [conf EXCEPT !.nfreqs = lit.nfreqs, !.nchanwidth = lit.nfreqs]
  /\ loc' = [ loc EXCEPT !.fstart = DInt(lit.fstart), !.fend = DInt(lit.fend),
              !.fdelta = DDivInt(lit.fend - lit.fstart, conf'.nfreqs - 1) ]
  /\ UNCHANGED << ret, lit, ptr, arr, heapVars, logVars, stageVars, failedAt, copyVars >>

\* lines 105-108: ntimes, tstart, tend, tdelta
L105_set_time_params ==
  /\ Goto("L105", "L110")
  /\ conf' = [conf EXCEPT !.ntimes = lit.ntimes]
  /\ loc' = [ loc EXCEPT !.tstart = DInt(lit.tstart), !.tend = DInt(lit.tend),
              !.tdelta = DDivInt(lit.tend - lit.tstart, conf'.ntimes - 1) ]
  /\ UNCHANGED << ret, lit, ptr, arr, heapVars, logVars, stageVars, failedAt, copyVars >>

\* free(p) for a field of *lowconfig
FreeField(from, to, p) ==
  /\ Goto(from, to)
  /\ Release(p)
  /\ useErr' = IF p = NULL \/ p \in Live THEN useErr
               ELSE useErr \cup {[fn |-> "free", buf |-> p]}
  /\ UNCHANGED << ret, lit, ptr, conf, loc, arr, allocOrder, allocArgs, calls,
                  stageVars, failedAt, copyVars >>

L110_free_freqs == FreeField("L110", "L111", conf.freqs)

L111_free_channel_bandwidth == FreeField("L111", "L112", conf.channel_bandwidth)

\* lowconfig->field = malloc/calloc(n * sizeof(double))
MallocField(from, to, field, obj, n) ==
  /\ Goto(from, to)
  /\ \/ /\ conf' = [conf EXCEPT ![field] = obj]
        /\ Alloc(obj, << n >>)
        /\ UNCHANGED failedAt
     \/ /\ conf' = [conf EXCEPT ![field] = NULL]
        /\ Failure(Len(stages))
        /\ UNCHANGED heapVars
  /\ UNCHANGED << ret, lit, ptr, loc, arr, relOrder, logVars, stageVars, copyVars >>

L112_malloc_freqs == MallocField("L112", "L113", "freqs", "freqs", conf.nfreqs)

L113_malloc_channel_bandwidth ==
  MallocField("L113", "L115", "channel_bandwidth", "chanbw", conf.nfreqs)

\* faulty variant: the list starts one step late
FreqAt_OneStepLate(i) == DAddInt(lit.fstart, DMulInt(i + 1, loc.fdelta))

\* lines 115-119: the frequency and bandwidth lists
FreqAt(i) == DAddInt(lit.fstart, DMulInt(i, loc.fdelta))

L115_fill_freqs ==
  /\ pc = "L115"
  /\ IF conf.nfreqs > 0 /\ (conf.freqs \notin Live \/ conf.channel_bandwidth \notin Live)
     THEN /\ pc' = "crashed"
          /\ useErr' = useErr \cup
               { [fn |-> "L116", buf |-> b] :
                   b \in {conf.freqs, conf.channel_bandwidth} \ Live }
          /\ UNCHANGED arr
     ELSE /\ pc' = "L121"
          /\ arr' = [ arr EXCEPT
               ![conf.freqs] = [ j \in 1..conf.nfreqs |-> FreqAt(j - 1) ],
               ![conf.channel_bandwidth] = [ j \in 1..conf.nfreqs |-> loc.fdelta ] ]
          /\ UNCHANGED useErr
  /\ UNCHANGED << ret, lit, ptr, conf, loc, heapVars, calls, stageVars,
                  failedAt, copyVars >>

L121_free_times == FreeField("L121", "L122", conf.times)

L122_calloc_times == MallocField("L122", "L124", "times", "times", conf.ntimes)

\* lines 124-127: the list of times
TimeAt(i) == DAddInt(lit.tstart, DMulInt(i, loc.tdelta))

L124_fill_times ==
  /\ pc = "L124"
  /\ IF conf.ntimes > 0 /\ conf.times \notin Live
     THEN /\ pc' = "crashed"
          /\ useErr' = useErr \cup {[fn |-> "L125", buf |-> conf.times]}
          /\ UNCHANGED arr
     ELSE /\ pc' = "L130"
          /\ arr' = [ arr EXCEPT
               ![conf.times] = [ j \in 1..conf.ntimes |-> TimeAt(j - 1) ] ]
          /\ UNCHANGED useErr
  /\ UNCHANGED << ret, lit, ptr, conf, loc, heapVars, calls, stageVars,
                  failedAt, copyVars >>

NextConf ==
  \/ L50_malloc_shape
  \/ L51_malloc_shape1
  \/ L85_arl_initialize
  \/ L87_allocate_arlconf_default
  \/ L90_set_array
  \/ L100_set_freq_params
  \/ L105_set_time_params
  \/ L110_free_freqs
  \/ L111_free_channel_bandwidth
  \/ L112_malloc_freqs
  \/ L113_malloc_channel_bandwidth
  \/ L115_fill_freqs
  \/ L121_free_times
  \/ L122_calloc_times
  \/ L124_fill_times

\* ------------------------------------------------ main, lines 130 to 154
L130_nvis ==
  /\ Goto("L130", "L135")
  /\ loc' = [loc EXCEPT !.nvis = conf.nbases * conf.nfreqs * conf.ntimes]
  /\ UNCHANGED << ret, lit, ptr, conf, arr, heapVars, logVars, stageVars, failedAt, copyVars >>

\* var = allocate_*(args): a library allocator returning a new object; bufs
\* are the pointers handed to it
AllocLib(from, to, var, fn, bufs, args) ==
  /\ Goto(from, to)
  /\ ptr' = [ptr EXCEPT ![var] = var]
  /\ Alloc(var, args)
  /\ LibCall(fn, bufs, << >>, args)
  /\ UNCHANGED << ret, lit, conf, loc, arr, relOrder, stageVars, failedAt, copyVars >>

\* faulty variant: antenna and channel counts swapped
BlockVisArgs_Swapped == << conf.nfreqs, conf.nant, conf.npol, conf.ntimes >>

BlockVisArgs == << conf.nant, conf.nfreqs, conf.npol, conf.ntimes >>

L135_allocate_vt ==
  AllocLib("L135", "L136", "vt", "allocate_blockvis_data", << >>, BlockVisArgs)

L136_allocate_vt_predictfunction ==
  AllocLib("L136", "L137", "vt_predictfunction", "allocate_blockvis_data", << >>,
           BlockVisArgs)

L137_allocate_vt_gt ==
  AllocLib("L137", "L138", "vt_gt", "allocate_blockvis_data", << >>, BlockVisArgs)

L138_allocate_vtpredicted ==
  AllocLib("L138", "L141", "vtpredicted", "allocate_vis_data", << >>,
           << conf.npol, loc.nvis >>)

SizeofLongLong == 8

L141_cindex_nbytes ==
  /\ Goto("L141", "L143")
  /\ loc' = [ loc EXCEPT !.cindex_nbytes =
                conf.ntimes * conf.nant * conf.nant * conf.nfreqs * SizeofLongLong ]
  /\ UNCHANGED << ret, lit, ptr, conf, arr, heapVars, logVars, stageVars, failedAt, copyVars >>

\* lines 143-146: if (!(cindex_predict = malloc(cindex_nbytes))) { free; return 1; }
L143_malloc_cindex ==
  /\ pc = "L143"
  /\ \/ /\ ptr' = [ptr EXCEPT !["cindex_predict"] = "cindex_predict"]
        /\ Alloc("cindex_predict", << loc.cindex_nbytes >>)
        /\ pc' = "L151"
        /\ UNCHANGED << ret, relOrder, failedAt >>
     \/ /\ ptr' = [ptr EXCEPT !["cindex_predict"] = NULL]
        /\ Failure(Len(stages))
        /\ Release(NULL)
        /\ pc' = "done" /\ ret' = 1
        /\ UNCHANGED << allocOrder, allocArgs >>
  /\ UNCHANGED << lit, conf, loc, arr, logVars, stageVars, copyVars >>

\* what arl_create_blockvisibility does to *lowconfig: it sets nrec and leaves
\* every other field alone
Lib_arl_create_blockvisibility(c, nr) == [c EXCEPT !.nrec = nr]

\* arl_create_blockvisibility(lowconfig, vt)
L151_arl_create_blockvisibility ==
  /\ Goto("L151", "L154")
  /\ \E nr \in 1..MaxNrec : conf' = Lib_arl_create_blockvisibility(conf, nr)
  /\ LibCall("arl_create_blockvisibility", << ptr.lowconfig >>, << ptr.vt >>, << >>)
  /\ EnterStage("VisibilityCreated")
  /\ UNCHANGED << ret, lit, ptr, loc, arr, heapVars, exports, failedAt, copyVars >>

L154_allocate_gt ==
  AllocLib("L154", "L157", "gt", "allocate_gt_data", << >>,
           << conf.nant, conf.nfreqs, conf.nrec, conf.ntimes >>)

\* ----------------------------------------------- main, lines 157 to 217
\* what arl_advise_wide_field stores in adv: vis_slices, npixel and cellsize
\* (one cellsize value: no buffer is sized by it)
Lib_arl_advise_wide_field(a, vs, np) ==
  [a EXCEPT !.vis_slices = vs, !.npixel = np, !.cellsize = 5]

\* lines 157-164: adv inputs (delA in units of 0.01),
\* arl_advise_wide_field(lowconfig, vt, &adv), cellsize = adv.cellsize
L157_arl_advise_wide_field ==
  /\ Goto("L157", "L167")
  /\ \E vs \in 1..MaxSlices, np \in 1..MaxNpixel :
       LET a0 == [loc.adv EXCEPT !.guard_band_image = 4, !.delA = 2,
                                 !.wprojection_planes = 1]
           a1 == Lib_arl_advise_wide_field(a0, vs, np)
       IN loc' = [loc EXCEPT !.adv = a1, !.cellsize = a1.cellsize]
  /\ LibCall("arl_advise_wide_field", << ptr.lowconfig, ptr.vt >>, << >>, << >>)
  /\ EnterStage("Advised")
  /\ UNCHANGED << ret, lit, ptr, conf, arr, heapVars, exports, failedAt, copyVars >>

\* what helper_get_image_shape_multifreq stores in shape
Lib_helper_get_image_shape_multifreq(c, npixel) ==
  << c.nfreqs, c.npol, npixel, npixel >>

\* helper_get_image_shape_multifreq(lowconfig, adv.cellsize, adv.npixel, shape)
L167_helper_get_image_shape ==
  /\ pc = "L167"
  /\ LibCall("helper_get_image_shape_multifreq", << ptr.lowconfig >>, << ptr.shape >>,
             << loc.adv.cellsize, loc.adv.npixel >>)
  /\ IF ptr.shape \in Live
     THEN /\ pc' = "L169"
          /\ arr' = [ arr EXCEPT ![ptr.shape] =
                        Lib_helper_get_image_shape_multifreq(conf, loc.adv.npixel) ]
     ELSE /\ pc' = "crashed"
          /\ UNCHANGED arr
  /\ UNCHANGED << ret, lit, ptr, conf, loc, heapVars, stageVars, failedAt, copyVars >>

\* img = allocate_image(shp): an image of the shape the array holds
AllocImage(from, to, var, shp) ==
  AllocLib(from, to, var, "allocate_image", << shp >>,
           IF shp \in Objects THEN arr[shp] ELSE << >>)

L169_allocate_gleam_model == AllocImage("L169", "L170", "gleam_model", ptr.shape)

\* a call of the imaging library that enters a pipeline stage
StageCall(from, to, fn, ins, outs, ints, stage) ==
  /\ Goto(from, to)
  /\ LibCall(fn, ins, outs, ints)
  /\ EnterStage(stage)
  /\ UNCHANGED << ret, lit, ptr, conf, loc, arr, heapVars, exports, failedAt, copyVars >>

\* a call of the imaging library inside the current stage
PlainCall(from, to, fn, ins, outs, ints) ==
  /\ Goto(from, to)
  /\ LibCall(fn, ins, outs, ints)
  /\ UNCHANGED << ret, lit, ptr, conf, loc, arr, heapVars, stageVars, failedAt, copyVars >>

L170_arl_create_low_test_image_from_gleam ==
  StageCall("L170", "L173", "arl_create_low_test_image_from_gleam",
            << ptr.lowconfig, ptr.vt >>, << ptr.gleam_model >>,
            << loc.adv.cellsize, loc.adv.npixel >>, "SkyModelBuilt")

\* status = mkdir("results", ...)
L173_mkdir ==
  /\ Goto("L173", "L174")
  /\ \E st \in {0, -1} : loc' = [loc EXCEPT !.status = st]
  /\ UNCHANGED << ret, lit, ptr, conf, arr, heapVars, logVars, stageVars, failedAt, copyVars >>

\* status = export_image_to_fits_c(img, file): the status is stored, never read
Export(from, to, img, stagesNow) ==
  /\ Goto(from, to)
  /\ \E st \in {0, 1} :
       /\ loc' = [loc EXCEPT !.status = st]
       /\ IF st # 0 THEN Failure(Len(stagesNow)) ELSE UNCHANGED failedAt
  /\ LibCall("export_image_to_fits_c", << img >>, << >>, << >>)
  /\ stages' = stagesNow
  /\ exports' = Append(exports, [img |-> img, during |-> Last(stagesNow)])
  /\ UNCHANGED << ret, lit, ptr, conf, arr, heapVars, copyVars >>

L174_export_gleam_model == Export("L174", "L177", ptr.gleam_model, stages)

\* faulty variant: the conversion call at line 180 is jumped over
L177_skip_convert ==
  StageCall("L177", "L183", "arl_predict_function",
            << ptr.lowconfig, ptr.vt, ptr.gleam_model >>,
            << ptr.vtpredicted, ptr.vt_predictfunction, ptr.cindex_predict >>,
            << >>, "Predicted")

L177_arl_predict_function ==
  StageCall("L177", "L180", "arl_predict_function",
            << ptr.lowconfig, ptr.vt, ptr.gleam_model >>,
            << ptr.vtpredicted, ptr.vt_predictfunction, ptr.cindex_predict >>,
            << >>, "Predicted")

L180_arl_convert_visibility_to_blockvisibility ==
  StageCall("L180", "L183", "arl_convert_visibility_to_blockvisibility",
            << ptr.lowconfig, ptr.vtpredicted, ptr.vt_predictfunction,
               ptr.cindex_predict >>,
            << ptr.vt >>, << >>, "Converted")

L183_arl_create_gaintable_from_blockvisibility ==
  PlainCall("L183", "L186", "arl_create_gaintable_from_blockvisibility",
            << ptr.lowconfig, ptr.vt >>, << ptr.gt >>, << >>)

L186_arl_simulate_gaintable ==
  StageCall("L186", "L189", "arl_simulate_gaintable",
            << ptr.lowconfig >>, << ptr.gt >>, << >>, "GainSimulated")

L189_arl_apply_gaintable ==
  StageCall("L189", "L193", "arl_apply_gaintable",
            << ptr.lowconfig, ptr.vt, ptr.gt >>, << ptr.vt_gt >>, << >>,
            "GainApplied")

\* lines 193-196: shape1 = shape with shape1[0] = 1
L193_copy_shape ==
  /\ pc = "L193"
  /\ IF ptr.shape \in Live /\ ptr.shape1 \in Live
     THEN /\ pc' = "L197"
          /\ arr' = [ arr EXCEPT ![ptr.shape1] =
                        [ j \in 1..ShapeLen |->
                            IF j = 1 THEN 1 ELSE arr[ptr.shape][j] ] ]
          /\ UNCHANGED useErr
     ELSE /\ pc' = "crashed"
          /\ useErr' = useErr \cup
               { [fn |-> "L194", buf |-> b] : b \in {ptr.shape, ptr.shape1} \ Live }
          /\ UNCHANGED arr
  /\ UNCHANGED << ret, lit, ptr, conf, loc, heapVars, calls, stageVars,
                  failedAt, copyVars >>

L197_allocate_model == AllocImage("L197", "L198", "model", ptr.shape1)

L198_arl_create_image_from_blockvisibility ==
  StageCall("L198", "L201", "arl_create_image_from_blockvisibility",
            << ptr.lowconfig, ptr.vt >>, << ptr.model >>,
            << loc.adv.cellsize, loc.adv.npixel >>, "ModelImageBuilt")

L201_allocate_dirty == AllocImage("L201", "L202", "dirty", ptr.shape1)

L202_arl_invert_function ==
  StageCall("L202", "L205", "arl_invert_function",
            << ptr.lowconfig, ptr.vtpredicted, ptr.model >>, << ptr.dirty >>,
            << loc.adv.vis_slices >>, "Inverted")

L205_export_dirty == Export("L205", "L208", ptr.dirty, stages)

L208_allocate_deconvolved == AllocImage("L208", "L209", "deconvolved", ptr.shape1)

L209_allocate_residual == AllocImage("L209", "L210", "residual", ptr.shape1)

\* faulty variant: the restored image takes the multi-channel shape
L210_allocate_restored_shape ==
  AllocImage("L210", "L212", "restored", ptr.shape)

L210_allocate_restored == AllocImage("L210", "L212", "restored", ptr.shape1)

L212_arl_ical ==
  StageCall("L212", "L215", "arl_ical",
            << ptr.lowconfig, ptr.vt_gt, ptr.model >>,
            << ptr.deconvolved, ptr.residual, ptr.restored >>,
            << loc.adv.vis_slices >>, "Calibrated")

L215_export_deconvolved ==
  Export("L215", "L216", ptr.deconvolved, Append(stages, "Exported"))

L216_export_residual == Export("L216", "L217", ptr.residual, stages)

L217_export_restored == Export("L217", "L221", ptr.restored, stages)

\* ----------------------------------------------- main, lines 221 to 237
\* what destroy_image, destroy_vis and destroy_gt return
Lib_destroy_result == NULL

\* var = destroy_*(var): releases the object and stores the result
Destroy(from, to, var, fn, stagesNow) ==
  /\ Goto(from, to)
  /\ LibCall(fn, << ptr[var] >>, << >>, << >>)
  /\ Release(ptr[var])
  /\ ptr' = [ptr EXCEPT ![var] = Lib_destroy_result]
  /\ stages' = stagesNow
  /\ UNCHANGED << ret, lit, conf, loc, arr, allocOrder, allocArgs, exports, failedAt,
                  copyVars >>

L221_destroy_gleam_model ==
  Destroy("L221", "L222", "gleam_model", "destroy_image", Append(stages, "Released"))

L222_destroy_model == Destroy("L222", "L223", "model", "destroy_image", stages)

L223_destroy_dirty == Destroy("L223", "L224", "dirty", "destroy_image", stages)

L224_destroy_deconvolved ==
  Destroy("L224", "L225", "deconvolved", "destroy_image", stages)

L225_destroy_residual == Destroy("L225", "L226", "residual", "destroy_image", stages)

\* faulty variant: line 226 releases the gain table in place of the restored image
L226_destroy_gt_early == Destroy("L226", "L227", "gt", "destroy_gt", stages)

L226_destroy_restored == Destroy("L226", "L227", "restored", "destroy_image", stages)

L227_destroy_vt == Destroy("L227", "L228", "vt", "destroy_vis", stages)

L228_destroy_vtpredicted ==
  Destroy("L228", "L229", "vtpredicted", "destroy_vis", stages)

L229_destroy_vt_predictfunction ==
  Destroy("L229", "L230", "vt_predictfunction", "destroy_vis", stages)

L230_destroy_vt_gt == Destroy("L230", "L231", "vt_gt", "destroy_vis", stages)

L231_destroy_gt == Destroy("L231", "L232", "gt", "destroy_gt", stages)

\* free(p) for a pointer local of main
FreeLocal(from, to, var) == FreeField(from, to, ptr[var])

L232_free_cindex_predict == FreeLocal("L232", "L233", "cindex_predict")

L233_free_shape == FreeLocal("L233", "L234", "shape")

L234_free_shape1 == FreeLocal("L234", "L237", "shape1")

L237_return ==
  /\ Goto("L237", "done")
  /\ ret' = 0
  /\ UNCHANGED << lit, ptr, conf, loc, arr, heapVars, logVars, stageVars, failedAt,
                  copyVars >>

NextPipeline ==
  \/ L130_nvis
  \/ L135_allocate_vt
  \/ L136_allocate_vt_predictfunction
  \/ L137_allocate_vt_gt
  \/ L138_allocate_vtpredicted
  \/ L141_cindex_nbytes
  \/ L143_malloc_cindex
  \/ L151_arl_create_blockvisibility
  \/ L154_allocate_gt
  \/ L157_arl_advise_wide_field
  \/ L167_helper_get_image_shape
  \/ L169_allocate_gleam_model
  \/ L170_arl_create_low_test_image_from_gleam
  \/ L173_mkdir
  \/ L174_export_gleam_model
  \/ L177_arl_predict_function
  \/ L180_arl_convert_visibility_to_blockvisibility
  \/ L183_arl_create_gaintable_from_blockvisibility
  \/ L186_arl_simulate_gaintable
  \/ L189_arl_apply_gaintable
  \/ L193_copy_shape
  \/ L197_allocate_model
  \/ L198_arl_create_image_from_blockvisibility
  \/ L201_allocate_dirty
  \/ L202_arl_invert_function
  \/ L205_export_dirty
  \/ L208_allocate_deconvolved
  \/ L209_allocate_residual
  \/ L210_allocate_restored
  \/ L212_arl_ical
  \/ L215_export_deconvolved
  \/ L216_export_residual
  \/ L217_export_restored
  \/ L221_destroy_gleam_model
  \/ L222_destroy_model
  \/ L223_destroy_dirty
  \/ L224_destroy_deconvolved
  \/ L225_destroy_residual
  \/ L226_destroy_restored
  \/ L227_destroy_vt
  \/ L228_destroy_vtpredicted
  \/ L229_destroy_vt_predictfunction
  \/ L230_destroy_vt_gt
  \/ L231_destroy_gt
  \/ L232_free_cindex_predict
  \/ L233_free_shape
  \/ L234_free_shape1
  \/ L237_return


\* -------------------------------------------------------- verify_arl_copy
Handles == {1, 2}
Buffers == {1, 2}

\* the byte at offset o of payload p: a fixed pattern, with at most one
\* byte per payload changed (flip[p] = -1: none)
BasePattern(o) == (7 * o) % 256
Byte(p, o) ==
  IF flip[p] = o THEN (BasePattern(o) + 128) % 256 ELSE BasePattern(o)

HandleVals ==
  [ nvis : 0..MaxNvis, npol : 1..MaxNpol, data : Buffers ]

\* offsets at which a payload byte may be changed: the first byte, one inside
\* the header, and the last byte inside and the first byte outside every extent
FlipOffsets ==
  {-1, 0, VisHeaderBytes \div 2} \cup
  { VisHeaderBytes + VisRowBytes * k + d : k \in 0..(MaxNpol * MaxNvis), d \in {-1, 0} }

InitCopy ==
  /\ pc = "V22" /\ DriverRest /\ lit = ShippedLit
  /\ hnd \in [ Handles -> HandleVals ]
  /\ flip \in { f \in [ Buffers -> FlipOffsets ] : f[1] \in {-1, 0} }
  /\ va \in Handles /\ vb \in Handles
  /\ vres = -1 /\ vsize = 0 /\ vi = 0

CopyFrame == UNCHANGED << ret, lit, ptr, conf, loc, arr, heapVars, logVars, stageVars,
                          failedAt, hnd, flip, va, vb >>

\* lines 22-25: if (vt == vtmp) return 1
V22_same_handle ==
  /\ pc = "V22"
  /\ IF va = vb THEN pc' = "V_ret" /\ vres' = 1 ELSE pc' = "V27" /\ UNCHANGED vres
  /\ UNCHANGED << vsize, vi >>
  /\ CopyFrame

\* lines 27-29: if (!((vt->nvis == vtmp->nvis) && (vt->npol == vtmp->npol))) return 2
V27_shape ==
  /\ pc = "V27"
  /\ IF ~((hnd[va].nvis = hnd[vb].nvis) /\ (hnd[va].npol = hnd[vb].npol))
     THEN pc' = "V_ret" /\ vres' = 2
     ELSE pc' = "V31" /\ UNCHANGED vres
  /\ UNCHANGED << vsize, vi >>
  /\ CopyFrame

\* lines 31-33: if (vt->data == vtmp->data) return 3
V31_shared_data ==
  /\ pc = "V31"
  /\ IF hnd[va].data = hnd[vb].data
     THEN pc' = "V_ret" /\ vres' = 3
     ELSE pc' = "V35" /\ UNCHANGED vres
  /\ UNCHANGED << vsize, vi >>
  /\ CopyFrame

\* faulty variant: the 80 header bytes left out of the extent
ARLVisDataSize_NoHeader(vt) == VisRowBytes * hnd[vt].npol * hnd[vt].nvis

ARLVisDataSize(vt) == VisHeaderBytes + (VisRowBytes * hnd[vt].npol * hnd[vt].nvis)

\* lines 35-39: the extent, and i = 0
V35_size ==
  /\ Goto("V35", "V39")
  /\ vsize' = ARLVisDataSize(va)
  /\ vi' = 0
  /\ UNCHANGED vres
  /\ CopyFrame

LoopContinues(i, size) == i < size

\* lines 39-45: one test of the loop condition and one comparison
V39_loop ==
  /\ pc = "V39"
  /\ IF ~LoopContinues(vi, vsize)
     THEN pc' = "V_ret" /\ vres' = 0 /\ UNCHANGED vi
     ELSE IF Byte(hnd[va].data, vi) # Byte(hnd[vb].data, vi)
     THEN pc' = "V_ret" /\ vres' = 4 /\ UNCHANGED vi
     ELSE pc' = "V39" /\ vi' = vi + 1 /\ UNCHANGED vres
  /\ UNCHANGED vsize
  /\ CopyFrame

NextCopy ==
  \/ V22_same_handle
  \/ V27_shape
  \/ V31_shared_data
  \/ V35_size
  \/ V39_loop

Next == NextConf \/ NextPipeline

Spec == Init /\ [][Next]_vars

SpecConf == InitConf /\ [][NextConf]_vars

SpecCopy == InitCopy /\ [][NextCopy]_vars

\* =================================================================== claims
Images == { "gleam_model", "model", "dirty", "deconvolved", "residual", "restored" }
VisBuffers == { "vt", "vt_predictfunction", "vt_gt", "vtpredicted" }
Scratch == { "cindex_predict", "shape", "shape1" }
CallsOf(fn) == SelectSeq(calls, LAMBDA c : c.fn = fn)
Pos(s, x) == CHOOSE i \in DOMAIN s : s[i] = x

\* ------------------------------------------------------------------- C1
SameCounts == hnd[va].nvis = hnd[vb].nvis /\ hnd[va].npol = hnd[vb].npol
PayloadsDiffer ==
  \E o \in 0..(80 + 32 * hnd[va].npol * hnd[va].nvis - 1) :
    Byte(hnd[va].data, o) # Byte(hnd[vb].data, o)
ExpectedDiscriminant ==
  IF va = vb THEN 1
  ELSE IF ~SameCounts THEN 2
  ELSE IF hnd[va].data = hnd[vb].data THEN 3
  ELSE IF PayloadsDiffer THEN 4
  ELSE 0

\* C1: verify_arl_copy(a, b) returns 1 if a and b are the same handle, else 2
\* if nvis or npol differ, else 3 if the data pointers are equal, else 4 if some
\* byte at an offset in [0, 80 + 32*npol*nvis) differs, else 0; it returns 0
\* exactly when the handles are distinct, the counts equal, the storage
\* distinct and every byte of the extent equal; one changed byte inside the
\* extent of an otherwise identical payload gives a non-zero result.
C1_VerifyArlCopyDiscriminant ==
  pc = "V_ret" =>
    /\ vres = ExpectedDiscriminant
    /\ (vres = 0) <=>
         (va # vb /\ SameCounts /\ hnd[va].data # hnd[vb].data /\ ~PayloadsDiffer)
    /\ ( /\ flip[hnd[va].data] = -1
         /\ flip[hnd[vb].data] \in 0..(80 + 32 * hnd[va].npol * hnd[va].nvis - 1) )
       => vres # 0

\* a changed byte at the last offset of a payload with nvis > 0 was found
C1_Witness ==
  /\ pc = "V_ret" /\ vres = 4 /\ hnd[va].nvis > 0
  /\ vi = 80 + 32 * hnd[va].npol * hnd[va].nvis - 1

\* ------------------------------------------------------------------- C2
ExportStage(img) ==
  CASE img = "gleam_model" -> "SkyModelBuilt"
    [] img = "dirty" -> "Inverted"
    [] OTHER -> "Exported"

\* C2 as stated: in every run the thirteen stages are entered exactly once in
\* the order of StageOrder, none skipped, and no FITS export happens before the
\* Exported stage.
C2_StrictStageOrder ==
  /\ IsPrefix(stages, StageOrder)
  /\ (pc = "done" => stages = StageOrder)
  /\ \A i \in DOMAIN exports : exports[i].during = "Exported"

\* C2 amended: the stages entered always form a prefix of StageOrder (each at
\* most once, in order, none skipped); a run that returns 0 has entered all
\* thirteen; the run that returns 1 has entered Configured only; the GLEAM
\* model is exported during SkyModelBuilt and the dirty image during Inverted,
\* and only the three ICAL images are exported during Exported.
C2_StageOrderAmended ==
  /\ IsPrefix(stages, StageOrder)
  /\ (pc = "done" /\ ret = 0 => stages = StageOrder)
  /\ (pc = "done" /\ ret # 0 => stages = << "Configured" >>)
  /\ \A i \in DOMAIN exports :
       /\ exports[i].img \in Images
       /\ exports[i].during = ExportStage(exports[i].img)
  /\ (pc = "done" /\ ret = 0 =>
        [ i \in DOMAIN exports |-> exports[i].img ] =
          << "gleam_model", "dirty", "deconvolved", "residual", "restored" >>)

C2_Witness ==
  pc = "done" /\ ret = 0 /\ stages = StageOrder /\ Len(exports) = 5

\* ------------------------------------------------------------------- C3
ClaimedEntities == {"lowconfig"} \cup Scratch \cup VisBuffers \cup {"gt"} \cup Images

\* C3: on every path by which main returns, every entity allocated during the
\* run (configuration, shape arrays, visibility buffers, conversion index, gain
\* table, images) has been released exactly once.
C3_ReleasedExactlyOnce ==
  pc = "done" =>
    \A o \in ClaimedEntities :
      Count(relOrder, o) = Count(allocOrder, o) /\ Count(relOrder, o) <= 1

\* ------------------------------------------------------------------- C4
\* C4: once an allocation has returned NULL or an export a non-zero status, no
\* later pipeline stage is entered and main does not return 0.
C4_FailFast ==
  failedAt >= 0 =>
    /\ Len(stages) = failedAt
    /\ (pc = "done" => ret # 0)

\* ------------------------------------------------------------------- C5
FinalReleased == Images \cup VisBuffers \cup {"gt"} \cup Scratch
ReleaseGroup(o) ==
  CASE o \in Images -> 1
    [] o \in VisBuffers -> 2
    [] o = "gt" -> 3
    [] OTHER -> 4
FinalReleases == SelectIn(relOrder, FinalReleased)
GroupsInOrder(s) ==
  \A i, j \in DOMAIN s : i < j => ReleaseGroup(s[i]) <= ReleaseGroup(s[j])

\* C5 as stated: at the end of a complete run the releases go images,
\* visibility buffers, gain table, scratch arrays, and that order is the reverse
\* of the order in which the same buffers were allocated.
C5_ReleaseMirrorsAllocation ==
  (pc = "done" /\ ret = 0) =>
    /\ GroupsInOrder(FinalReleases)
    /\ FinalReleases = Reverse(SelectIn(allocOrder, FinalReleased))

\* C5 amended: at the end of a complete run each of the fourteen buffers is
\* released, in the order images, visibility buffers, gain table, scratch
\* arrays; the images, allocated last, go first, but the order is not the
\* reverse of the allocation order: the visibility buffers were allocated
\* before the conversion index and the gain table and are released before them.
C5_ReleaseGroupOrder ==
  /\ GroupsInOrder(FinalReleases)
  /\ (pc = "done" /\ ret = 0) =>
       /\ Range(FinalReleases) = FinalReleased
       /\ Len(FinalReleases) = Cardinality(FinalReleased)
       /\ \A v \in VisBuffers, o \in {"gt", "cindex_predict"} :
            /\ Pos(allocOrder, v) < Pos(allocOrder, o)
            /\ Pos(relOrder, v) < Pos(relOrder, o)
       /\ \A im \in Images, o \in FinalReleased \ Images :
            /\ Pos(allocOrder, o) < Pos(allocOrder, im)
            /\ Pos(relOrder, im) < Pos(relOrder, o)

C5_Witness ==
  pc = "done" /\ ret = 0 /\ Len(FinalReleases) = 14 /\ Last(relOrder) = "shape1"

\* ------------------------------------------------------------------- C6
FreqParamsSet == pc \notin {"L50", "L51", "L85", "L87", "L90", "L100"}
TimeParamsSet == FreqParamsSet /\ pc # "L105"

FreqsFilled == pc \in {"L121", "L122", "L124", "L130"}
FreqStep == (lit.fend - lit.fstart) \div (lit.nfreqs - 1)

\* C7: for nfreqs > 1 and fstart <= fend with (fend - fstart) divisible by
\* (nfreqs - 1), the list has nfreqs entries freqs[i] = fstart + i*step with
\* step = (fend - fstart)/(nfreqs - 1), so it starts at fstart and ends at
\* fend, and every channel_bandwidth[i] is step; for (0.8e8, 1.2e8, 5) the
\* list is 0.8e8, 0.9e8, 1.0e8, 1.1e8, 1.2e8 with bandwidth 1.0e7.
C7_UniformFrequencies ==
  ( /\ FreqsFilled
    /\ lit.nfreqs > 1 /\ lit.fstart <= lit.fend
    /\ (lit.fend - lit.fstart) % (lit.nfreqs - 1) = 0 )
  =>
    LET f == arr[conf.freqs]
        bw == arr[conf.channel_bandwidth]
    IN /\ conf.nfreqs = lit.nfreqs
       /\ Len(f) = lit.nfreqs /\ Len(bw) = lit.nfreqs
       /\ \A i \in 0..(lit.nfreqs - 1) :
            /\ f[i + 1] = DInt(lit.fstart + i * FreqStep)
            /\ bw[i + 1] = DInt(FreqStep)
       /\ f[1] = DInt(lit.fstart) /\ f[lit.nfreqs] = DInt(lit.fend)
       /\ ( lit.fstart = 80000000 /\ lit.fend = 120000000 /\ lit.nfreqs = 5 ) =>
            /\ f = << DInt(80000000), DInt(90000000), DInt(100000000),
                      DInt(110000000), DInt(120000000) >>
            /\ \A i \in 1..5 : bw[i] = DInt(10000000)

C7_Witness ==
  /\ pc = "L130" /\ lit.nfreqs = 5 /\ lit.fstart = 80000000
  /\ arr["freqs"][5] = DInt(120000000)

\* ------------------------------------------------------------------- C8
Allocated(o) == Count(allocOrder, o) > 0

\* C8: the three block visibility buffers are allocated with the same
\* (nant, nfreqs, npol, ntimes), the flat one with npol and
\* nvis = nbases*nfreqs*ntimes, the conversion index with
\* ntimes*nant*nant*nfreqs entries of 8 bytes, the gain table with the same
\* nant, nfreqs and ntimes; and in every later state those are the values the
\* configuration holds.
C8_ConsistentDimensions ==
  /\ \A o \in {"vt", "vt_predictfunction", "vt_gt"} :
       Allocated(o) =>
         allocArgs[o] = << conf.nant, conf.nfreqs, conf.npol, conf.ntimes >>
  /\ Allocated("vtpredicted") =>
       allocArgs["vtpredicted"] =
         << conf.npol, conf.nbases * conf.nfreqs * conf.ntimes >>
  /\ Allocated("cindex_predict") =>
       allocArgs["cindex_predict"] =
         << 8 * (conf.ntimes * conf.nant * conf.nant * conf.nfreqs) >>
  /\ Allocated("gt") =>
       allocArgs["gt"] = << conf.nant, conf.nfreqs, conf.nrec, conf.ntimes >>

C8_Witness ==
  /\ pc = "L215" /\ Allocated("gt") /\ Allocated("cindex_predict")
  /\ allocArgs["vt"] = allocArgs["vt_gt"] /\ Len(allocArgs["vt"]) = 4

\* ------------------------------------------------------------------- C9
OutOf(fn) == CallsOf(fn)[1].outs

\* C9: arl_ical is called at most once, and exactly once in a run that returns
\* 0; at the call its visibility argument is the buffer arl_apply_gaintable
\* wrote, its model argument the image arl_create_image_from_blockvisibility
\* built, its slicing argument adv.vis_slices, and its three output images are
\* live, pairwise distinct, distinct from the model and the dirty image, each
\* allocated with shape [1, shape[1], shape[2], shape[3]].
C9_IcalCall ==
  LET ic == CallsOf("arl_ical") IN
  /\ Len(ic) <= 1
  /\ (pc = "done" /\ ret = 0 => Len(ic) = 1)
  /\ Len(ic) = 1 =>
       LET c == ic[1] IN
       /\ Len(CallsOf("arl_apply_gaintable")) = 1
       /\ << c.ins[2] >> = OutOf("arl_apply_gaintable")
       /\ << c.ins[3] >> = OutOf("arl_create_image_from_blockvisibility")
       /\ c.ints = << loc.adv.vis_slices >>
       /\ Len(c.outs) = 3
       /\ Range(c.outs) \subseteq Objects
       /\ Cardinality(Range(c.outs) \cup {c.ins[3]}
                        \cup Range(OutOf("arl_invert_function"))) = 5
       /\ \A e \in useErr : e.fn # "arl_ical"
       /\ \A o \in Range(c.outs) :
            /\ Allocated(o)
            /\ allocArgs[o] =
                 << 1, arr["shape"][2], arr["shape"][3], arr["shape"][4] >>

C9_Witness ==
  /\ pc = "L215" /\ Len(CallsOf("arl_ical")) = 1
  /\ CallsOf("arl_ical")[1].outs = << "deconvolved", "residual", "restored" >>

\* ------------------------------------------------------------------ C10
\* C10: every pointer handed to a library call, freed or dereferenced by main
\* names an object that has been allocated and not yet released.
C10_NoUseOutsideLifetime == useErr = {}

====
